---- MODULE Spec2Model ----
(***************************************************************************)
(* convert_uppercase.py: read target.yaml, keep the lines whose first      *)
(* character is lowercase, capitalize their first two words, and write     *)
(* the result back over target.yaml.                                       *)
(*                                                                         *)
(* Text is modelled as sequences of characters.  A character is a string:  *)
(* "a" "b" are lowercase letters with the uppercase forms "A" "B"; "kra"   *)
(* stands for U+0138 (LATIN SMALL LETTER KRA), a lowercase letter that has *)
(* no uppercase form (str.islower() is True, str.upper() returns it        *)
(* unchanged); " " "\t" "\n" are whitespace.                               *)
(***************************************************************************)
EXTENDS Integers, Sequences, FiniteSets, TLC

\* ------------------------------------------------------------------ bounds
\* lines and words (in all) of target.yaml: for one run and two runs in a
\* row, and (Small) for two interleaved runs
MaxLines == 2
MaxTok == 4
MaxLinesSmall == 1
MaxTokSmall == 2

\* -------------------------------------------------------------- characters
LowerCased == {"a", "b"}
UpperCased == {"A", "B"}
LowerUncased == {"kra"}
Whitespace == {" ", "\t", "\n"}
Char == LowerCased \cup UpperCased \cup LowerUncased \cup Whitespace

\* faulty variant: str.isalpha() instead of str.islower()
islower_isalpha(c) == c \in LowerCased \cup LowerUncased \cup UpperCased

\* str.islower() of a one-character string
islower(c) == c \in LowerCased \cup LowerUncased

\* faulty variant: no character has an uppercase form
upper_identity(c) == c

\* str.upper() / str.lower() of a one-character string
upper(c) == CASE c = "a" -> "A" [] c = "b" -> "B" [] OTHER -> c
lower(c) == CASE c = "A" -> "a" [] c = "B" -> "b" [] OTHER -> c

\* ------------------------------------------------------- string functions
\* f.readlines(): the text cut after every "\n"; a last piece without "\n"
\* is a line too; no line is empty.
RECURSIVE readlines_from(_, _, _)
readlines_from(s, k, cur) ==
    IF k > Len(s) THEN (IF cur = <<>> THEN <<>> ELSE <<cur>>)
    ELSE IF s[k] = "\n" THEN <<Append(cur, s[k])>> \o readlines_from(s, k + 1, <<>>)
    ELSE readlines_from(s, k + 1, Append(cur, s[k]))

readlines(s) == readlines_from(s, 1, <<>>)

\* str.split(): the maximal runs of non-whitespace characters
RECURSIVE split_from(_, _, _)
split_from(s, k, cur) ==
    IF k > Len(s) THEN (IF cur = <<>> THEN <<>> ELSE <<cur>>)
    ELSE IF s[k] \in Whitespace
         THEN (IF cur = <<>> THEN <<>> ELSE <<cur>>) \o split_from(s, k + 1, <<>>)
    ELSE split_from(s, k + 1, Append(cur, s[k]))

split(s) == split_from(s, 1, <<>>)

\* faulty variant: str.title()-like slip, the rest of the word is not lowercased
capitalize_keep_rest(w) ==
    [k \in 1..Len(w) |-> IF k = 1 THEN upper(w[k]) ELSE w[k]]

\* str.capitalize(): first character uppercased, the others lowercased
capitalize(w) ==
    [k \in 1..Len(w) |-> IF k = 1 THEN upper(w[k]) ELSE lower(w[k])]

\* sep.join(words)
RECURSIVE join(_, _)
join(sep, ws) ==
    IF ws = <<>> THEN <<>>
    ELSE IF Len(ws) = 1 THEN ws[1]
    ELSE ws[1] \o sep \o join(sep, Tail(ws))

\* the characters f.writelines(output) hands to the file object
RECURSIVE concat(_)
concat(ls) == IF ls = <<>> THEN <<>> ELSE ls[1] \o concat(Tail(ls))

\* lines 13-18 for a line with at least two words
convert(line) ==
    LET words == split(line)
        w0 == [words EXCEPT ![1] = capitalize(words[1])]
        w1 == [w0 EXCEPT ![2] = capitalize(w0[2])]
    IN  join(<<" ">>, w1) \o <<"\n">>

\* ------------------------------------------------- vocabulary of the claims
\* The notions the properties are stated in, written down from their meaning
\* (positions in the text), not from the script's string functions.
LowerLetter == {"a", "b", "kra"}
CasePairs == {<<"a", "A">>, <<"b", "B">>}
UpperOf(c) == IF \E pr \in CasePairs : pr[1] = c
              THEN (CHOOSE pr \in CasePairs : pr[1] = c)[2] ELSE c
LowerOf(c) == IF \E pr \in CasePairs : pr[2] = c
              THEN (CHOOSE pr \in CasePairs : pr[2] = c)[1] ELSE c

\* positions that end a line, and the n-th line of a text
LineEnds(t) == {k \in 1..Len(t) : t[k] = "\n" \/ k = Len(t)}
NLines(t) == Cardinality(LineEnds(t))
NthEnd(t, n) ==
    CHOOSE k \in LineEnds(t) : Cardinality({j \in LineEnds(t) : j < k}) = n - 1
LineAt(t, n) == SubSeq(t, IF n = 1 THEN 1 ELSE NthEnd(t, n - 1) + 1, NthEnd(t, n))
LinesOf(t) == [n \in 1..NLines(t) |-> LineAt(t, n)]

\* the tokens of a line: maximal runs of non-whitespace characters
TokStarts(s) ==
    {k \in 1..Len(s) : s[k] \notin Whitespace /\ (k = 1 \/ s[k - 1] \in Whitespace)}
NTokens(s) == Cardinality(TokStarts(s))
NthStart(s, n) ==
    CHOOSE k \in TokStarts(s) : Cardinality({j \in TokStarts(s) : j < k}) = n - 1
TokEnd(s, k) ==
    CHOOSE e \in k..Len(s) :
        /\ \A j \in k..e : s[j] \notin Whitespace
        /\ e = Len(s) \/ s[e + 1] \in Whitespace
TokenAt(s, n) == SubSeq(s, NthStart(s, n), TokEnd(s, NthStart(s, n)))

Capitalized(w) == <<UpperOf(w[1])>> \o [k \in 1..Len(w) - 1 |-> LowerOf(w[k + 1])]

StartsLower(l) == l[1] \in LowerLetter
Malformed(l) == StartsLower(l) /\ NTokens(l) < 2

\* tokens n.. of the line, the first two capitalized, single spaces between
RECURSIVE ExpectedFrom(_, _)
ExpectedFrom(l, n) ==
    LET tok == IF n <= 2 THEN Capitalized(TokenAt(l, n)) ELSE TokenAt(l, n)
    IN  IF n = NTokens(l) THEN tok ELSE tok \o <<" ">> \o ExpectedFrom(l, n + 1)

\* the output line of a line with at least two tokens
Expected(l) == ExpectedFrom(l, 1) \o <<"\n">>

\* the lines of a sequence that start with a lowercase letter, in order
Qualifying(ls) == SelectSeq(ls, StartsLower)

Range(f) == {f[k] : k \in DOMAIN f}

\* ------------------------------------------------------------------ inputs
Token == {<<"a", "B">>, <<"A">>, <<"kra">>}
Style == {"plain", "runs"}

RECURSIVE TokSeqs(_)
TokSeqs(n) ==
    IF n = 0 THEN {<<>>}
    ELSE {Append(ts, t) : ts \in TokSeqs(n - 1), t \in Token}

\* a terminated line of the given words: single spaces, or runs of mixed
\* whitespace between the words and a blank before the newline
MkLine(style, ts) ==
    IF style = "plain" THEN join(<<" ">>, ts) \o <<"\n">>
    ELSE join(<<"\t", " ">>, ts) \o <<" ", "\n">>

RECURSIVE Texts(_, _, _)
Texts(style, nl, nt) ==
    IF nl = 0 THEN {<<>>}
    ELSE {<<>>} \cup
         UNION {{MkLine(style, ts) \o rest : ts \in TokSeqs(k),
                                              rest \in Texts(style, nl - 1, nt - k)}
                : k \in 0..nt}

\* texts of at most nl lines and nt words in all; the last line may lack
\* its newline
Files(nl, nt) ==
    LET T == UNION {Texts(st, nl, nt) : st \in Style}
    IN  T \cup {SubSeq(t, 1, Len(t) - 1) : t \in T \ {<<>>}}

Perm == {"rw", "r", "none"}

\* ------------------------------------------------------------------- state
Procs == {1, 2}
Paths == {1, 2}

VARIABLES
    file,      \* Paths -> the text stored under the path
    perm,      \* Paths -> what open() is allowed on the path
    file0,     \* the texts before any run (history)
    target,    \* Procs -> the path 'target.yaml' resolves to
    pc,        \* Procs -> position in the script
    lines,     \* Procs -> lines
    i,         \* Procs -> loop index (1-based; range(len(lines)) is 0-based)
    output,    \* Procs -> output
    rOpen,     \* Procs -> the handle of line 5 is open
    wOpen,     \* Procs -> the handle of line 24 is open
    wbuf,      \* Procs -> text buffered in the write handle
    err,       \* Procs -> the uncaught exception, or "none"
    events     \* Procs -> file operations done so far (history)

vars == <<file, perm, file0, target, pc, lines, i, output, rOpen, wOpen, wbuf, err, events>>

procInit ==
    /\ pc = [p \in Procs |-> "open_r"]
    /\ lines = [p \in Procs |-> <<>>]
    /\ i = [p \in Procs |-> 1]
    /\ output = [p \in Procs |-> <<>>]
    /\ rOpen = [p \in Procs |-> FALSE]
    /\ wOpen = [p \in Procs |-> FALSE]
    /\ wbuf = [p \in Procs |-> <<>>]
    /\ err = [p \in Procs |-> "none"]
    /\ events = [p \in Procs |-> <<>>]

\* one file, every process resolves target.yaml to it
InitShared(F) ==
    /\ \E t \in F, m \in Perm :
          /\ file = (1 :> t) @@ (2 :> <<>>)
          /\ perm = (1 :> m) @@ (2 :> "none")
    /\ file0 = file
    /\ target = [p \in Procs |-> 1]
    /\ procInit

Init == InitShared(Files(MaxLines, MaxTok))

\* ----------------------------------------------------------------- actions
\* line 5: open('target.yaml', 'r')
OpenRead(p) ==
    /\ pc[p] = "open_r"
    /\ perm[target[p]] \in {"rw", "r"}
    /\ rOpen' = [rOpen EXCEPT ![p] = TRUE]
    /\ events' = [events EXCEPT ![p] = Append(@, "open_r")]
    /\ pc' = [pc EXCEPT ![p] = "readlines"]
    /\ UNCHANGED <<file, perm, file0, target, lines, i, output, wOpen, wbuf, err>>

\* line 5 raising OSError (missing file, permission denied)
OpenReadFail(p) ==
    /\ pc[p] = "open_r"
    /\ perm[target[p]] = "none"
    /\ err' = [err EXCEPT ![p] = "OSError"]
    /\ pc' = [pc EXCEPT ![p] = "failed"]
    /\ UNCHANGED <<file, perm, file0, target, lines, i, output, rOpen, wOpen, wbuf, events>>

\* lines 7-8: output = []; lines = f.readlines()
ReadLines(p) ==
    /\ pc[p] = "readlines"
    /\ output' = [output EXCEPT ![p] = <<>>]
    /\ lines' = [lines EXCEPT ![p] = readlines(file[target[p]])]
    /\ i' = [i EXCEPT ![p] = 1]
    /\ events' = [events EXCEPT ![p] = Append(@, "readlines")]
    /\ pc' = [pc EXCEPT ![p] = "loop"]
    /\ UNCHANGED <<file, perm, file0, target, rOpen, wOpen, wbuf, err>>

\* faulty variant: the other lines are passed through unchanged
SkipLine_passthrough(p) ==
    /\ pc[p] = "loop"
    /\ i[p] <= Len(lines[p])
    /\ ~islower(lines[p][i[p]][1])
    /\ output' = [output EXCEPT ![p] = Append(@, lines[p][i[p]])]
    /\ i' = [i EXCEPT ![p] = @ + 1]
    /\ UNCHANGED <<file, perm, file0, target, pc, lines, rOpen, wOpen, wbuf, err, events>>

\* faulty variant: the loop stops at the first line that is not converted
SkipLine_break(p) ==
    /\ pc[p] = "loop"
    /\ i[p] <= Len(lines[p])
    /\ ~islower(lines[p][i[p]][1])
    /\ i' = [i EXCEPT ![p] = Len(lines[p]) + 1]
    /\ UNCHANGED <<file, perm, file0, target, pc, lines, output, rOpen, wOpen, wbuf, err, events>>

\* lines 10-11: an iteration whose line does not start with a lowercase character
SkipLine(p) ==
    /\ pc[p] = "loop"
    /\ i[p] <= Len(lines[p])
    /\ ~islower(lines[p][i[p]][1])
    /\ i' = [i EXCEPT ![p] = @ + 1]
    /\ UNCHANGED <<file, perm, file0, target, pc, lines, output, rOpen, wOpen, wbuf, err, events>>

\* faulty variant: output.insert(0, converted) instead of output.append(converted)
ConvertLine_prepend(p) ==
    /\ pc[p] = "loop"
    /\ i[p] <= Len(lines[p])
    /\ islower(lines[p][i[p]][1])
    /\ Len(split(lines[p][i[p]])) >= 2
    /\ output' = [output EXCEPT ![p] = <<convert(lines[p][i[p]])>> \o @]
    /\ i' = [i EXCEPT ![p] = @ + 1]
    /\ UNCHANGED <<file, perm, file0, target, pc, lines, rOpen, wOpen, wbuf, err, events>>

\* lines 10-20: an iteration that converts its line and appends it
ConvertLine(p) ==
    /\ pc[p] = "loop"
    /\ i[p] <= Len(lines[p])
    /\ islower(lines[p][i[p]][1])
    /\ Len(split(lines[p][i[p]])) >= 2
    /\ output' = [output EXCEPT ![p] = Append(@, convert(lines[p][i[p]]))]
    /\ i' = [i EXCEPT ![p] = @ + 1]
    /\ UNCHANGED <<file, perm, file0, target, pc, lines, rOpen, wOpen, wbuf, err, events>>

\* faulty variant: the IndexError is swallowed and the line dropped
ConvertFail_skip(p) ==
    /\ pc[p] = "loop"
    /\ i[p] <= Len(lines[p])
    /\ islower(lines[p][i[p]][1])
    /\ Len(split(lines[p][i[p]])) < 2
    /\ i' = [i EXCEPT ![p] = @ + 1]
    /\ UNCHANGED <<file, perm, file0, target, pc, lines, output, rOpen, wOpen, wbuf, err, events>>

\* faulty variant: the lines converted so far are written before the exception
\* ends the script
ConvertFail_flush(p) ==
    /\ pc[p] = "loop"
    /\ i[p] <= Len(lines[p])
    /\ islower(lines[p][i[p]][1])
    /\ Len(split(lines[p][i[p]])) < 2
    /\ file' = [file EXCEPT ![target[p]] = concat(output[p])]
    /\ err' = [err EXCEPT ![p] = "IndexError"]
    /\ rOpen' = [rOpen EXCEPT ![p] = FALSE]
    /\ events' = [events EXCEPT ![p] = Append(@, "close_r")]
    /\ pc' = [pc EXCEPT ![p] = "failed"]
    /\ UNCHANGED <<perm, file0, target, lines, i, output, wOpen, wbuf>>

\* lines 10-15: words[1] raises IndexError; the with block closes the handle
\* and the exception ends the script
ConvertFail(p) ==
    /\ pc[p] = "loop"
    /\ i[p] <= Len(lines[p])
    /\ islower(lines[p][i[p]][1])
    /\ Len(split(lines[p][i[p]])) < 2
    /\ err' = [err EXCEPT ![p] = "IndexError"]
    /\ rOpen' = [rOpen EXCEPT ![p] = FALSE]
    /\ events' = [events EXCEPT ![p] = Append(@, "close_r")]
    /\ pc' = [pc EXCEPT ![p] = "failed"]
    /\ UNCHANGED <<file, perm, file0, target, lines, i, output, wOpen, wbuf>>

\* faulty variant: no with block, the read handle is never closed
CloseRead_leak(p) ==
    /\ pc[p] = "loop"
    /\ i[p] > Len(lines[p])
    /\ events' = [events EXCEPT ![p] = Append(@, "close_r")]
    /\ pc' = [pc EXCEPT ![p] = "open_w"]
    /\ UNCHANGED <<file, perm, file0, target, lines, i, output, rOpen, wOpen, wbuf, err>>

\* end of the with block of line 5, after the last iteration
CloseRead(p) ==
    /\ pc[p] = "loop"
    /\ i[p] > Len(lines[p])
    /\ rOpen' = [rOpen EXCEPT ![p] = FALSE]
    /\ events' = [events EXCEPT ![p] = Append(@, "close_r")]
    /\ pc' = [pc EXCEPT ![p] = "open_w"]
    /\ UNCHANGED <<file, perm, file0, target, lines, i, output, wOpen, wbuf, err>>

\* faulty variant: mode 'r+' instead of 'w', the file is not truncated
OpenWrite_keep(p) ==
    /\ pc[p] = "open_w"
    /\ perm[target[p]] = "rw"
    /\ wOpen' = [wOpen EXCEPT ![p] = TRUE]
    /\ wbuf' = [wbuf EXCEPT ![p] = <<>>]
    /\ events' = [events EXCEPT ![p] = Append(@, "open_w")]
    /\ pc' = [pc EXCEPT ![p] = "writelines"]
    /\ UNCHANGED <<file, perm, file0, target, lines, i, output, rOpen, err>>

\* line 24: open('target.yaml', 'w') truncates the file
OpenWrite(p) ==
    /\ pc[p] = "open_w"
    /\ perm[target[p]] = "rw"
    /\ file' = [file EXCEPT ![target[p]] = <<>>]
    /\ wOpen' = [wOpen EXCEPT ![p] = TRUE]
    /\ wbuf' = [wbuf EXCEPT ![p] = <<>>]
    /\ events' = [events EXCEPT ![p] = Append(@, "open_w")]
    /\ pc' = [pc EXCEPT ![p] = "writelines"]
    /\ UNCHANGED <<perm, file0, target, lines, i, output, rOpen, err>>

\* line 24 raising OSError (permission denied)
OpenWriteFail(p) ==
    /\ pc[p] = "open_w"
    /\ perm[target[p]] # "rw"
    /\ err' = [err EXCEPT ![p] = "OSError"]
    /\ pc' = [pc EXCEPT ![p] = "failed"]
    /\ UNCHANGED <<file, perm, file0, target, lines, i, output, rOpen, wOpen, wbuf, events>>

\* line 26: f.writelines(output) fills the handle's buffer
WriteLines(p) ==
    /\ pc[p] = "writelines"
    /\ wbuf' = [wbuf EXCEPT ![p] = @ \o concat(output[p])]
    /\ events' = [events EXCEPT ![p] = Append(@, "writelines")]
    /\ pc' = [pc EXCEPT ![p] = "close_w"]
    /\ UNCHANGED <<file, perm, file0, target, lines, i, output, rOpen, wOpen, err>>

\* end of the with block of line 24: the buffer is written at the handle's
\* offset 0 and the handle is closed
CloseWrite(p) ==
    /\ pc[p] = "close_w"
    /\ file' = [file EXCEPT ![target[p]] =
                  wbuf[p] \o SubSeq(@, Len(wbuf[p]) + 1, Len(@))]
    /\ wbuf' = [wbuf EXCEPT ![p] = <<>>]
    /\ wOpen' = [wOpen EXCEPT ![p] = FALSE]
    /\ events' = [events EXCEPT ![p] = Append(@, "close_w")]
    /\ pc' = [pc EXCEPT ![p] = "done"]
    /\ UNCHANGED <<perm, file0, target, lines, i, output, rOpen, err>>

Step(p) ==
    \/ OpenRead(p)
    \/ OpenReadFail(p)
    \/ ReadLines(p)
    \/ SkipLine(p)
    \/ ConvertLine(p)
    \/ ConvertFail(p)
    \/ CloseRead(p)
    \/ OpenWrite(p)
    \/ OpenWriteFail(p)
    \/ WriteLines(p)
    \/ CloseWrite(p)

\* one run of the script
Next == Step(1)

Spec == Init /\ [][Next]_vars

\* a second run of the script, started after the first has ended
NextSeq ==
    \/ Step(1)
    \/ pc[1] \in {"done", "failed"} /\ Step(2)

SpecSeq == Init /\ [][NextSeq]_vars

\* two runs of the script at once, on the same file
InitConc == InitShared(Files(MaxLinesSmall, MaxTokSmall))

NextConc == \E p \in Procs : Step(p)

SpecConc == InitConc /\ [][NextConc]_vars

\* lines that do not start with a lowercase letter: a bare newline, an
\* uppercase-led line, a whitespace-led line
Filler == {<<"\n">>, <<"A", " ", "a", "\n">>, <<" ", "a", "B", "\n">>}

\* the text with the line fl put after its n-th line
InsertLine(t, n, fl) ==
    LET cut == IF n = 0 THEN 0 ELSE NthEnd(t, n)
    IN  SubSeq(t, 1, cut) \o fl \o SubSeq(t, cut + 1, Len(t))

\* after how many lines a line can be put: not after a last line that lacks
\* its newline
InsertPoints(t) ==
    {n \in 0..NLines(t) : n < NLines(t) \/ t = <<>> \/ t[Len(t)] = "\n"}

\* two runs in two directories with the same permissions; the second file
\* is the first with one more line that does not start with a lowercase
\* letter.  (Any two files with the same lowercase-led lines in the same
\* order are linked by a chain of such insertions and removals.)
InitPair ==
    /\ \E t \in Files(MaxLinesSmall, MaxTokSmall), fl \in Filler, m \in Perm :
          \E n \in InsertPoints(t) :
             /\ file = (1 :> t) @@ (2 :> InsertLine(t, n, fl))
             /\ perm = (1 :> m) @@ (2 :> m)
    /\ file0 = file
    /\ target = [p \in Procs |-> p]
    /\ procInit

SpecPair == InitPair /\ [][NextConc]_vars

\* the text of process 1's file: as it was, as it was read, as it is
Before == file0[1]
Now == file[1]
Succeeded(p) == pc[p] = "done"

\* ---------------------------------------------------------------- claims
\* C1: a line that starts with a lowercase letter and has at least two tokens
\* yields the output line made of its tokens, the first two capitalized, the
\* others unchanged, joined by single spaces and ended by one newline.
C1_ConvertedLine ==
    \A p \in {1} :
        (/\ pc[p] \in {"loop", "open_w", "writelines", "close_w", "done"}
         /\ i[p] > 1
         /\ StartsLower(lines[p][i[p] - 1])
         /\ NTokens(lines[p][i[p] - 1]) >= 2)
        => /\ output[p] # <<>>
           /\ output[p][Len(output[p])] = Expected(lines[p][i[p] - 1])

\* C1 witness: a line of three tokens separated by runs of whitespace, whose
\* second token changes and whose third token is kept, has been converted.
C1_Witness ==
    /\ pc[1] = "loop" /\ i[1] > 1
    /\ StartsLower(lines[1][i[1] - 1])
    /\ NTokens(lines[1][i[1] - 1]) >= 3
    /\ TokenAt(lines[1][i[1] - 1], 3) = <<"a", "B">>
    /\ \E k \in 1..Len(lines[1][i[1] - 1]) : lines[1][i[1] - 1][k] = "\t"
    /\ output[1][Len(output[1])] = Expected(lines[1][i[1] - 1])
    /\ output[1][Len(output[1])] # lines[1][i[1] - 1]

\* C2: after a successful run every line of the file is the output line of
\* an input line that starts with a lowercase letter; when no input line
\* does, the file is empty.
C2_OnlyLowercaseLed ==
    Succeeded(1) =>
        /\ \A w \in Range(LinesOf(Now)) :
              \E l \in Range(LinesOf(Before)) : StartsLower(l) /\ w = Expected(l)
        /\ (\A l \in Range(LinesOf(Before)) : ~StartsLower(l)) => Now = <<>>

\* C2 witness: a non-empty file without any lowercase-led line is empty
\* after the run.
C2_Witness ==
    /\ Succeeded(1)
    /\ NLines(Before) >= 2
    /\ \A l \in Range(LinesOf(Before)) : ~StartsLower(l)
    /\ \E l \in Range(LinesOf(Before)) : l[1] \in UpperCased
    /\ \E l \in Range(LinesOf(Before)) : l[1] \in Whitespace
    /\ Now = <<>>

\* C3: after a successful run the file has one line per input line that
\* starts with a lowercase letter, and its k-th line is the output line of
\* the k-th such input line.
C3_CountAndOrder ==
    Succeeded(1) =>
        LET q == Qualifying(LinesOf(Before))
        IN  /\ NLines(Now) = Len(q)
            /\ \A k \in 1..Len(q) : LineAt(Now, k) = Expected(q[k])

\* C3 witness: two different lowercase-led lines were written, in order.
C3_Witness ==
    /\ Succeeded(1)
    /\ NLines(Now) = 2
    /\ LineAt(Now, 1) # LineAt(Now, 2)
    /\ NLines(Before) = 2

\* C4 as stated: the lines written are a strict subset of the lines read.
C4_StrictSubset ==
    Succeeded(1) =>
        /\ \A w \in Range(LinesOf(Now)) :
              \E l \in Range(LinesOf(Before)) : NTokens(l) >= 2 /\ w = Expected(l)
        /\ NLines(Now) < NLines(Before)

\* C4 amended: every line written is the output line of a line read, and
\* some line read has no written counterpart exactly when some line read
\* does not start with a lowercase letter.
C4_Subset ==
    Succeeded(1) =>
        /\ \A w \in Range(LinesOf(Now)) :
              \E l \in Range(LinesOf(Before)) : NTokens(l) >= 2 /\ w = Expected(l)
        /\ NLines(Now) <= NLines(Before)
        /\ NLines(Now) < NLines(Before)
              <=> \E l \in Range(LinesOf(Before)) : ~StartsLower(l)

\* C4 witness: every line read was written back, converted.
C4_Witness ==
    /\ Succeeded(1)
    /\ NLines(Before) = 2
    /\ NLines(Now) = NLines(Before)
    /\ Now # Before

\* C5: once a lowercase-led line with fewer than two tokens has been read,
\* the run never gets past the loop, and it ends with IndexError.
C5_IndexError ==
    (\E k \in 1..Len(lines[1]) : Malformed(lines[1][k])) =>
        /\ pc[1] \in {"loop", "failed"}
        /\ pc[1] = "failed" => err[1] = "IndexError"
        /\ ~wOpen[1]

\* C5 witness: the run failed on a one-token line that follows a well-formed
\* lowercase-led line.
C5_Witness ==
    /\ pc[1] = "failed" /\ err[1] = "IndexError"
    /\ Len(lines[1]) = 2
    /\ ~Malformed(lines[1][1]) /\ StartsLower(lines[1][1])
    /\ Malformed(lines[1][2])
    /\ Len(output[1]) = 1

CanonicalOrder == <<"open_r", "readlines", "close_r", "open_w", "writelines", "close_w">>

\* C7: the file operations of a run happen in the order open, read, close,
\* open for writing, write, close; the read handle is closed only after the
\* loop, unless the run fails; the two handles are never open together; the
\* file is untouched until every line has been read and converted.
C7_PhaseOrder ==
    /\ events[1] = SubSeq(CanonicalOrder, 1, Len(events[1]))
    /\ ~(rOpen[1] /\ wOpen[1])
    /\ rOpen[1] <=> Len(events[1]) \in {1, 2}
    /\ wOpen[1] <=> Len(events[1]) \in {4, 5}
    /\ (Len(events[1]) >= 3 /\ err[1] # "IndexError") => i[1] = Len(lines[1]) + 1
    /\ (Len(events[1]) >= 3 /\ err[1] # "IndexError")
          => output[1] = [k \in 1..Len(Qualifying(lines[1])) |->
                             Expected(Qualifying(lines[1])[k])]
    /\ Now # Before => Len(events[1]) >= 4
    /\ Len(events[1]) < 2 => lines[1] = <<>>

\* C7 witness: the file has just been truncated, after two lines were read
\* and converted and the read handle was closed.
C7_Witness ==
    /\ pc[1] = "writelines"
    /\ wOpen[1] /\ ~rOpen[1]
    /\ Now = <<>> /\ Before # <<>>
    /\ Len(output[1]) = 2

\* C9: a run that fails with IndexError leaves the file as it was.
C9_FailureKeepsFile ==
    err[1] = "IndexError" =>
        /\ Now = Before
        /\ ~wOpen[1]
        /\ \A k \in 1..Len(events[1]) : events[1][k] \notin {"open_w", "writelines", "close_w"}

\* C9 witness: the run failed after it had converted an earlier line; the
\* file still holds its text.
C9_Witness ==
    /\ err[1] = "IndexError" /\ pc[1] = "failed"
    /\ output[1] # <<>>
    /\ Now = Before /\ Now # <<>>

Ended(p) == pc[p] \in {"done", "failed"}

\* the lowercase-led lines whose first letter has no uppercase form
Uncased(ls) == SelectSeq(ls, LAMBDA l : l[1] \in LowerLetter /\ UpperOf(l[1]) = l[1])

ExpectedAll(ls) == [k \in 1..Len(ls) |-> Expected(ls[k])]

\* C6 as stated: a second run after a successful first run succeeds and
\* leaves the file empty, the first run having written no lowercase-led line.
C6_SecondRunEmpties ==
    /\ (Succeeded(1) /\ pc[2] = "open_r")
          => \A l \in Range(LinesOf(Now)) : ~StartsLower(l)
    /\ (Succeeded(1) /\ Ended(2)) => (Succeeded(2) /\ Now = <<>>)

\* C6 amended: a second run after a successful first run succeeds and keeps
\* exactly the output lines whose first letter is lowercase and has no
\* uppercase form; the file is empty when the first run wrote no such line.
C6_SecondRun ==
    LET u == Uncased(Qualifying(LinesOf(Before)))
    IN  /\ (Succeeded(1) /\ pc[2] = "open_r")
              => \A l \in Range(LinesOf(Now)) : StartsLower(l) => UpperOf(l[1]) = l[1]
        /\ (Succeeded(1) /\ Ended(2))
              => /\ Succeeded(2)
                 /\ LinesOf(Now) = ExpectedAll(u)
                 /\ u = <<>> => Now = <<>>

\* C6 witness: the first run wrote two lines, the second run emptied the file.
C6_Witness ==
    /\ Succeeded(1) /\ Succeeded(2)
    /\ Len(output[1]) = 2
    /\ lines[2] = output[1]
    /\ Now = <<>>

\* the text one run alone leaves
SingleRunResult == concat(ExpectedAll(Qualifying(LinesOf(Before))))
SecondRunResult == concat(ExpectedAll(Uncased(Qualifying(LinesOf(Before)))))

\* C8: two concurrent runs that both succeed leave the single-run result when
\* both read the file before either opened it for writing; otherwise the
\* file may also end as a run of the script on an emptied or already
\* converted file leaves it.
C8_RaceOutcomes ==
    (Succeeded(1) /\ Succeeded(2)) =>
        /\ (lines[1] = LinesOf(Before) /\ lines[2] = LinesOf(Before))
              => Now = SingleRunResult
        /\ Now \in {SingleRunResult, SecondRunResult, <<>>}
        /\ Now # SingleRunResult
              => \E p \in Procs : lines[p] # LinesOf(Before)

\* C8 witness: the same input that ends as the single-run result when both
\* runs read first ends empty, because run 2 read after run 1 had truncated.
C8_Witness ==
    /\ Succeeded(1) /\ Succeeded(2)
    /\ SingleRunResult # <<>>
    /\ lines[1] = LinesOf(Before)
    /\ lines[2] = <<>>
    /\ Now = <<>>

\* the interleavings that keep the single-run result
C8_BothReadFirst ==
    /\ Succeeded(1) /\ Succeeded(2)
    /\ SingleRunResult # <<>>
    /\ lines[1] = LinesOf(Before) /\ lines[2] = LinesOf(Before)
    /\ Now = SingleRunResult

\* C10: two runs on files with the same lowercase-led lines end alike: both
\* fail with the same exception, or both succeed with the same text.
C10_SameOutcome ==
    (Ended(1) /\ Ended(2)) =>
        /\ pc[1] = pc[2]
        /\ err[1] = err[2]
        /\ Succeeded(1) => file[1] = file[2]

\* C10 witness: two different files gave the same non-empty text.
C10_Witness ==
    /\ Succeeded(1) /\ Succeeded(2)
    /\ file0[1] # file0[2]
    /\ file[1] = file[2]
    /\ file[1] # <<>>

====
